---- MODULE Spec2Model ----
(***************************************************************************)
(* Flint & Flours storefront. The client (frontend/src/App.js and the two  *)
(* component files): the shopping context (cart and region), the auth      *)
(* context (user, loading, stored tokens), the route guards, the Cart      *)
(* page's pricing requests and the admin panel's order editing. The server *)
(* behind it: the AuthSession Manager (users, verification and reset       *)
(* tokens, access and refresh tokens) and the Regional Commerce Engine     *)
(* (price_product, price_cart), as one state machine with a specification  *)
(* for each part.                                                          *)
(***************************************************************************)
EXTENDS Integers, Sequences, FiniteSets, Bags, TLC

\* ------------------------------------------------------------------ bounds
\* Largest quantity a cart line or a quantity selector is driven to.
MaxQty == 2
\* Largest number of cart lines under direct calls of the cart functions.
MaxCartLen == 2
\* Largest number of cart lines built through the pages.
MaxLines == 1
\* Largest number of requests of one kind in flight at a time.
MaxInflight == 2

\* ------------------------------------------------------------ value domains
\* subscription_type values offered by the product pages.
SubscriptionTypes == {"one-time", "weekly", "monthly"}

\* Amounts of money are fixed-point decimals: integers that count millionths
\* of the currency unit (every amount the engine computes from a base_price
\* in hundredths is a whole number of them).
Micro == 1000000

\* The catalog: product objects reduced to the fields the client logic and
\* the pricing read; base_price is in INR (100.00 and 49.99).
Products ==
    { [id |-> 1, subscription_eligible |-> TRUE, base_price |-> 100 * Micro],
      [id |-> 2, subscription_eligible |-> FALSE,
       base_price |-> 4999 * (Micro \div 100)] }

ProductIds == {p.id : p \in Products}

\* The two <option> values of the header's region selector.
RegionOptions == {"India", "Canada"}

\* localStorage.getItem returns null for a key that was never set.
Null == "null"

\* ProductDetail's product before it is loaded, ProductModal without a product.
NoProduct == 0

VARIABLES
    cart,                    \* ShoppingProvider: useState([])
    region,                  \* ShoppingProvider: useState(selectedRegion || 'India')
    selectedRegion,          \* localStorage key 'selectedRegion'
    user,                    \* AuthProvider: useState(null)
    loading,                 \* AuthProvider: useState(true)
    access_token,            \* localStorage key 'access_token'
    refresh_token,           \* localStorage key 'refresh_token'
    profileReqs,             \* GET /user/profile requests in flight
    loginReqs,               \* POST /auth/login requests in flight
    updateReqs,              \* PUT /user/profile requests in flight
    page,                    \* the route (or overlay) on screen
    pdProduct,               \* ProductDetail: product
    pdQuantity,              \* ProductDetail: quantity
    pdSelectedSubscription,  \* ProductDetail: selectedSubscription
    pmProduct,               \* ProductModal: product prop
    pmQuantity,              \* ProductModal: quantity
    pmSelectedSubscription,  \* ProductModal: selectedSubscription
    cartCalculation,         \* Cart: cartCalculation
    cartLoading,             \* Cart: loading
    cartReqs,                \* POST /cart requests in flight
    cartFailed,              \* history: failed POST /cart requests of this visit
    last,                    \* history: the last direct call on the shopping context
    regionDefault,           \* history: login or profile update since the selector was used
    orderStore,              \* server: order_status of every stored order
    editingOrder,            \* OrdersManagement: editingOrder
    orderUpdates,            \* OrdersManagement: orderUpdates
    orderReqs,               \* PUT /admin/orders/{id} requests in flight
    priced,                  \* history: the last pricing call and its result
    users,                   \* server: the stored users, in insertion order
    now,                     \* server: the clock
    regCalls,                \* register calls between their lookup and their insert
    srv,                     \* history: the last completed auth call and its result
    issued,                  \* history: every access and refresh token issued so far
    tokCall,                 \* history: the last call that took or gave a token
    loggedOut,               \* history: logout() has run and login() was not called since
    enteredFor,              \* history: per field of orderUpdates, the order being edited when it was set
    checkoutLoading,         \* Checkout: loading
    deliveryAddress,         \* Checkout: deliveryAddress
    checkoutReqs,            \* POST /payments/checkout requests in flight
    orders,                  \* OrderHistory: orders
    subscriptions,           \* MySubscriptions: subscriptions
    pageReqs,                \* requests of OrderHistory and MySubscriptions in flight
    lastAlert,               \* the last alert() of MySubscriptions
    returned                 \* history: every order and subscription the server returned

cartVars    == <<cart, last>>
regionVars  == <<region, selectedRegion, regionDefault>>
authVars    == <<user, loading, access_token, refresh_token,
                 profileReqs, loginReqs, updateReqs, loggedOut>>
pageVars    == <<page, pdProduct, pdQuantity, pdSelectedSubscription,
                 pmProduct, pmQuantity, pmSelectedSubscription>>
pricingVars == <<cartCalculation, cartLoading, cartReqs, cartFailed>>

checkoutVars == <<checkoutLoading, deliveryAddress, checkoutReqs>>

myPagesVars == <<orders, subscriptions, pageReqs, lastAlert, returned>>

adminVars   == <<orderStore, editingOrder, orderUpdates, orderReqs, enteredFor>>

\* The state of the storefront pages and of everything behind them.
clientVars  == <<cartVars, regionVars, authVars, pageVars, pricingVars,
                 checkoutVars, myPagesVars>>
accountVars == <<users, now, regCalls, srv>>
tokenVars   == <<issued, tokCall>>
serverVars  == <<priced, accountVars, tokenVars>>
backendVars == <<adminVars, serverVars>>

vars == <<clientVars, backendVars>>

\* ------------------------------------------------- ShoppingProvider: cart
\* item.product_id === id && item.subscription_type === subscriptionType
SameKey(item, id, subscriptionType) ==
    item.product_id = id /\ item.subscription_type = subscriptionType

\* prev.find(...) !== undefined
HasLine(prev, id, subscriptionType) ==
    \E i \in 1..Len(prev) : SameKey(prev[i], id, subscriptionType)

\* addToCart with the merge overwriting the quantity instead of summing.
addToCart_overwrite(prev, product, quantity, subscriptionType) ==
    IF HasLine(prev, product.id, subscriptionType)
    THEN [i \in 1..Len(prev) |->
            IF SameKey(prev[i], product.id, subscriptionType)
            THEN [prev[i] EXCEPT !.quantity = quantity]
            ELSE prev[i]]
    ELSE Append(prev, [product_id |-> product.id,
                       quantity |-> quantity,
                       subscription_type |-> subscriptionType,
                       product |-> product])

\* addToCart without the lookup: every call appends a line.
addToCart_append(prev, product, quantity, subscriptionType) ==
    Append(prev, [product_id |-> product.id,
                  quantity |-> quantity,
                  subscription_type |-> subscriptionType,
                  product |-> product])

\* The updater passed to setCart by addToCart.
addToCart(prev, product, quantity, subscriptionType) ==
    IF HasLine(prev, product.id, subscriptionType)
    THEN [i \in 1..Len(prev) |->
            IF SameKey(prev[i], product.id, subscriptionType)
            THEN [prev[i] EXCEPT !.quantity = prev[i].quantity + quantity]
            ELSE prev[i]]
    ELSE Append(prev, [product_id |-> product.id,
                       quantity |-> quantity,
                       subscription_type |-> subscriptionType,
                       product |-> product])

\* prev.filter(item => !(same key))
RECURSIVE Filter(_, _, _)
Filter(prev, productId, subscriptionType) ==
    IF prev = <<>> THEN <<>>
    ELSE IF SameKey(Head(prev), productId, subscriptionType)
         THEN Filter(Tail(prev), productId, subscriptionType)
         ELSE <<Head(prev)>> \o Filter(Tail(prev), productId, subscriptionType)

\* removeFromCart comparing the product id alone.
removeFromCart_byProduct(prev, productId, subscriptionType) ==
    SelectSeq(prev, LAMBDA item : item.product_id # productId)

removeFromCart(prev, productId, subscriptionType) ==
    Filter(prev, productId, subscriptionType)

\* updateCartQuantity with the guard written quantity < 0.
updateCartQuantity_strict(prev, productId, subscriptionType, quantity) ==
    IF quantity < 0
    THEN removeFromCart(prev, productId, subscriptionType)
    ELSE [i \in 1..Len(prev) |->
            IF SameKey(prev[i], productId, subscriptionType)
            THEN [prev[i] EXCEPT !.quantity = quantity]
            ELSE prev[i]]

updateCartQuantity(prev, productId, subscriptionType, quantity) ==
    IF quantity <= 0
    THEN removeFromCart(prev, productId, subscriptionType)
    ELSE [i \in 1..Len(prev) |->
            IF SameKey(prev[i], productId, subscriptionType)
            THEN [prev[i] EXCEPT !.quantity = quantity]
            ELSE prev[i]]

clearCart(prev) == <<>>

\* cart.reduce((total, item) => total + item.quantity, 0)
RECURSIVE getCartTotal(_)
getCartTotal(c) ==
    IF c = <<>> THEN 0 ELSE Head(c).quantity + getCartTotal(Tail(c))

\* Quantity of the line with the given key, 0 when there is none.
QtyOf(c, id, s) ==
    IF HasLine(c, id, s)
    THEN c[CHOOSE i \in 1..Len(c) : SameKey(c[i], id, s)].quantity
    ELSE 0

\* ----------------------------------------------- ShoppingProvider: region
\* The initial region with the default written in lower case.
InitialRegion_lowercase(stored) ==
    IF stored = Null \/ stored = "" THEN "india" ELSE stored

\* localStorage.getItem('selectedRegion') || 'India'
InitialRegion(stored) == IF stored = Null \/ stored = "" THEN "India" ELSE stored

\* --------------------------------------------------------------- null values
NoUser == [id |-> Null, region |-> Null, is_admin |-> FALSE]
NoToken == [type |-> "none", user_id |-> Null]
NoCalculation == [items |-> <<>>, region |-> Null]
NoCall == [op |-> "none", product_id |-> 0, subscription_type |-> "one-time",
           quantity |-> 0, before |-> <<>>]

\* ------------------------------------------------------------------- orders
\* The orders the admin panel lists.
OrderIds == {"ORDER_001", "ORDER_002"}

\* The <option> values of the edit form's two selects, and what the two text
\* inputs hold once something was typed.
OrderStatusOptions == {"pending", "confirmed", "shipped", "delivered"}
DeliveryStatusOptions == {"processing", "shipped", "delivered"}
TextInputs == {"text"}

\* useState({}): a key that was never set reads as undefined, written "".
NoUpdates == [order_status |-> "", delivery_status |-> "",
              tracking_link |-> "", notes |-> ""]

\* Checkout is not mounted.
NoAddress == [country |-> Null]

CheckoutInit ==
    /\ checkoutLoading = FALSE
    /\ deliveryAddress = NoAddress
    /\ checkoutReqs = EmptyBag

\* No alert was shown.
NoAlert == [action |-> "none", text |-> ""]

\* OrderHistory and MySubscriptions are not mounted.
MyPagesInit ==
    /\ orders = <<>>
    /\ subscriptions = <<>>
    /\ pageReqs = EmptyBag
    /\ lastAlert = NoAlert
    /\ returned = {}

\* No field of orderUpdates is set.
NoneEntered == [order_status |-> Null, delivery_status |-> Null,
                tracking_link |-> Null, notes |-> Null]

\* finalize_order creates every order with order_status pending; the admin
\* panel's order list starts with no order being edited.
AdminInit ==
    /\ orderStore = [o \in OrderIds |-> "pending"]
    /\ editingOrder = Null
    /\ orderUpdates = NoUpdates
    /\ orderReqs = EmptyBag
    /\ enteredFor = NoneEntered

\* No call has been made on the server yet.
NoPricing == [op |-> "none"]

\* A verification or reset token that is not set.
NoOpaque == [kind |-> "none", email |-> "", at |-> 0]

NoAuthCall == [op |-> "none", email |-> "", token |-> NoOpaque, existed |-> FALSE,
               valid |-> FALSE, result |-> "", generated |-> FALSE]

NoTokenCall == [op |-> "none", token |-> NoToken, at |-> 0,
                result |-> [error |-> "none"], reissued |-> FALSE]

ServerInit ==
    /\ priced = NoPricing
    /\ users = <<>>
    /\ now = 0
    /\ regCalls = EmptyBag
    /\ srv = NoAuthCall
    /\ issued = {}
    /\ tokCall = NoTokenCall

\* ---------------------------------------------------------------------- Init
\* A first visit: nothing in localStorage, every provider mounted and its
\* mount effects run (no stored token, so loading is already false; the region
\* effect has stored the initial region).
Init ==
    /\ cart = <<>>
    /\ region = InitialRegion(Null)
    /\ selectedRegion = InitialRegion(Null)
    /\ user = NoUser
    /\ loading = FALSE
    /\ access_token = NoToken
    /\ refresh_token = NoToken
    /\ profileReqs = EmptyBag
    /\ loginReqs = EmptyBag
    /\ loggedOut = FALSE
    /\ updateReqs = EmptyBag
    /\ page = "products"
    /\ pdProduct = NoProduct
    /\ pdQuantity = 1
    /\ pdSelectedSubscription = "one-time"
    /\ pmProduct = NoProduct
    /\ pmQuantity = 1
    /\ pmSelectedSubscription = "one-time"
    /\ cartCalculation = NoCalculation
    /\ cartLoading = FALSE
    /\ cartReqs = EmptyBag
    /\ cartFailed = "no"
    /\ CheckoutInit
    /\ MyPagesInit
    /\ last = NoCall
    /\ regionDefault = "none"
    /\ AdminInit
    /\ ServerInit

\* ------------------------------------- direct calls on the shopping context
\* Quantities a caller passes to addToCart / updateCartQuantity.
AddQuantities == 1..MaxQty
UpdateQuantities == (0 - 1)..MaxQty

Call(op, id, s, q) ==
    [op |-> op, product_id |-> id, subscription_type |-> s,
     quantity |-> q, before |-> cart]

\* The model keeps carts within MaxCartLen lines of at most MaxQty each.
WithinBounds(c) ==
    /\ Len(c) <= MaxCartLen
    /\ \A i \in 1..Len(c) : c[i].quantity <= MaxQty

AddToCart(product, quantity, subscriptionType) ==
    /\ WithinBounds(addToCart(cart, product, quantity, subscriptionType))
    /\ cart' = addToCart(cart, product, quantity, subscriptionType)
    /\ last' = Call("addToCart", product.id, subscriptionType, quantity)
    /\ UNCHANGED <<regionVars, authVars, pageVars, pricingVars>>
    /\ UNCHANGED <<checkoutVars, myPagesVars, backendVars>>

RemoveFromCart(productId, subscriptionType) ==
    /\ cart' = removeFromCart(cart, productId, subscriptionType)
    /\ last' = Call("removeFromCart", productId, subscriptionType, 0)
    /\ UNCHANGED <<regionVars, authVars, pageVars, pricingVars>>
    /\ UNCHANGED <<checkoutVars, myPagesVars, backendVars>>

UpdateCartQuantity(productId, subscriptionType, quantity) ==
    /\ cart' = updateCartQuantity(cart, productId, subscriptionType, quantity)
    /\ last' = Call("updateCartQuantity", productId, subscriptionType, quantity)
    /\ UNCHANGED <<regionVars, authVars, pageVars, pricingVars>>
    /\ UNCHANGED <<checkoutVars, myPagesVars, backendVars>>

ClearCart ==
    /\ cart' = clearCart(cart)
    /\ last' = Call("clearCart", 0, "one-time", 0)
    /\ UNCHANGED <<regionVars, authVars, pageVars, pricingVars>>
    /\ UNCHANGED <<checkoutVars, myPagesVars, backendVars>>

NextCart ==
    \/ \E product \in Products, q \in AddQuantities, s \in SubscriptionTypes :
            AddToCart(product, q, s)
    \/ \E id \in ProductIds, s \in SubscriptionTypes : RemoveFromCart(id, s)
    \/ \E id \in ProductIds, s \in SubscriptionTypes, q \in UpdateQuantities :
            UpdateCartQuantity(id, s, q)
    \/ ClearCart

\* The shopping context driven by arbitrary calls of its four cart functions.
SpecCart == Init /\ [][NextCart]_vars

\* ------------------------------------------------------------ Cart page
\* calculateCart: the items sent in POST /cart.
cartItems(c) ==
    [i \in 1..Len(c) |->
        [product_id |-> c[i].product_id,
         quantity |-> c[i].quantity,
         subscription_type |-> c[i].subscription_type]]

\* ------------------------------------------------ Regional Commerce Engine
\* The regions the engine prices for.
SupportedRegions == {"India", "Canada"}

\* region -> conversion rate from INR, in hundredths: 1 INR = 0.06 CAD.
ConversionPct(r) == IF r = "Canada" THEN 6 ELSE 100

\* region -> tax rate, in hundredths: 0.18 (GST) and 0.13 (HST).
TaxPct(r) == IF r = "India" THEN 18 ELSE 13

\* region -> currency.
Currency(r) == IF r = "India" THEN "INR" ELSE "CAD"

ProductById(id) == CHOOSE p \in Products : p.id = id

\* price_product with a fallback to the reference currency for a region it
\* does not know.
price_product_fallback(product, r) ==
    IF r = "Canada"
    THEN [price |-> (product.base_price \div 100) * ConversionPct(r),
          currency |-> "CAD"]
    ELSE [price |-> product.base_price, currency |-> "INR"]

price_product(product, r) ==
    IF r \notin SupportedRegions
    THEN [error |-> "UnsupportedRegion"]
    ELSE [price |-> (product.base_price \div 100) * ConversionPct(r),
          currency |-> Currency(r)]

\* sum(total_price over all items)
RECURSIVE SumTotalPrice(_)
SumTotalPrice(lines) ==
    IF lines = <<>> THEN 0
    ELSE Head(lines).total_price + SumTotalPrice(Tail(lines))

\* One priced line of a priced cart.
PricedLine(item, r) ==
    LET unit_price == price_product(ProductById(item.product_id), r).price
    IN  [product_id |-> item.product_id,
         quantity |-> item.quantity,
         subscription_type |-> item.subscription_type,
         unit_price |-> unit_price,
         total_price |-> unit_price * item.quantity,
         currency |-> Currency(r)]

\* price_cart with the two tax rates exchanged.
price_cart_ratesSwapped(items, r) ==
    IF r \notin SupportedRegions
    THEN [error |-> "UnsupportedRegion"]
    ELSE IF \E i \in 1..Len(items) : items[i].product_id \notin ProductIds
    THEN [error |-> "ProductNotFound"]
    ELSE LET lines == [i \in 1..Len(items) |-> PricedLine(items[i], r)]
             subtotal == SumTotalPrice(lines)
             tax == (subtotal \div 100) * (31 - TaxPct(r))
         IN  [items |-> lines, region |-> r, currency |-> Currency(r),
              subtotal |-> subtotal, tax |-> tax, total |-> subtotal + tax]

\* price_cart that leaves the lines of unknown products out and prices the
\* others.
price_cart_skipMissing(items, r) ==
    IF r \notin SupportedRegions
    THEN [error |-> "UnsupportedRegion"]
    ELSE LET known == SelectSeq(items, LAMBDA item : item.product_id \in ProductIds)
             lines == [i \in 1..Len(known) |-> PricedLine(known[i], r)]
             subtotal == SumTotalPrice(lines)
             tax == (subtotal \div 100) * TaxPct(r)
         IN  [items |-> lines, region |-> r, currency |-> Currency(r),
              subtotal |-> subtotal, tax |-> tax, total |-> subtotal + tax]

\* The server's priced cart for a request: one priced line per requested
\* line, in order, with the requested quantity, priced for the region;
\* nothing is rounded.
price_cart(items, r) ==
    IF r \notin SupportedRegions
    THEN [error |-> "UnsupportedRegion"]
    ELSE IF \E i \in 1..Len(items) : items[i].product_id \notin ProductIds
    THEN [error |-> "ProductNotFound"]
    ELSE LET lines == [i \in 1..Len(items) |-> PricedLine(items[i], r)]
             subtotal == SumTotalPrice(lines)
             tax == (subtotal \div 100) * TaxPct(r)
         IN  [items |-> lines, region |-> r, currency |-> Currency(r),
              subtotal |-> subtotal, tax |-> tax, total |-> subtotal + tax]

\* amount.toFixed(2): the amount rounded to hundredths, as the pages show it.
toFixed2(amount) == ((amount + 5000) \div 10000) * 10000

CartRequest(c, r) == [items |-> cartItems(c), region |-> r]

OneMore(bag, req) == bag (+) SetToBag({req})
OneLess(bag, req) == bag (-) SetToBag({req})

\* Cart's useEffect on [cart, region], for the new cart c and region r.
CartEffect(c, r) ==
    IF Len(c) > 0
    THEN /\ BagCardinality(cartReqs) < MaxInflight
         /\ cartLoading' = TRUE
         /\ cartReqs' = OneMore(cartReqs, CartRequest(c, r))
         /\ UNCHANGED <<cartCalculation, cartFailed>>
    ELSE /\ cartCalculation' = NoCalculation
         /\ UNCHANGED <<cartLoading, cartReqs, cartFailed>>

\* The priced cart is on screen (with its +, - and Remove buttons).
CartShown ==
    /\ page = "cart"
    /\ Len(cart) > 0
    /\ ~cartLoading
    /\ cartCalculation # NoCalculation

\* ------------------------------------------------------------ page state
DetailUnmounted ==
    /\ pdProduct' = NoProduct
    /\ pdQuantity' = 1
    /\ pdSelectedSubscription' = "one-time"

\* An unmounted Cart drops its state; responses that arrive later set nothing.
CartUnmounted ==
    /\ cartCalculation' = NoCalculation
    /\ cartLoading' = FALSE
    /\ cartReqs' = EmptyBag
    /\ cartFailed' = "no"

\* An unmounted Checkout drops its state; the answer to a request it sent
\* sets nothing.
CheckoutUnmounted ==
    /\ checkoutLoading' = FALSE
    /\ deliveryAddress' = NoAddress
    /\ checkoutReqs' = EmptyBag

\* OrderHistory and MySubscriptions unmounted: their lists are dropped and no
\* answer reaches them.
MyPagesUnmounted ==
    /\ orders' = <<>>
    /\ subscriptions' = <<>>
    /\ pageReqs' = EmptyBag
    /\ lastAlert' = NoAlert
    /\ UNCHANGED returned

\* The cart the pages build stays within MaxLines lines of at most MaxQty.
WithinPageBounds(c) ==
    /\ Len(c) <= MaxLines
    /\ \A i \in 1..Len(c) : c[i].quantity <= MaxQty

\* ------------------------------------------------------------- navigation
\* <Link to="/products">, or closing the modal.
GoProducts ==
    /\ page # "products"
    /\ page' = "products"
    /\ pmProduct' = NoProduct
    /\ DetailUnmounted
    /\ CartUnmounted
    /\ UNCHANGED <<cartVars, regionVars, authVars, pmQuantity, pmSelectedSubscription>>
    /\ CheckoutUnmounted
    /\ MyPagesUnmounted
    /\ UNCHANGED backendVars

\* /products/:productId; the component stays mounted when only the
\* parameter changes, so quantity and selectedSubscription are kept then.
OpenDetail(product) ==
    /\ page \in {"products", "detail"}
    /\ pdProduct # product.id
    /\ page' = "detail"
    /\ pdProduct' = product.id
    /\ UNCHANGED <<pdQuantity, pdSelectedSubscription>>
    /\ UNCHANGED <<cartVars, regionVars, authVars, pricingVars,
                   pmProduct, pmQuantity, pmSelectedSubscription>>
    /\ UNCHANGED <<checkoutVars, myPagesVars, backendVars>>

\* The modal opens over the product list; its state outlives its closing.
OpenModal(product) ==
    /\ page = "products"
    /\ page' = "modal"
    /\ pmProduct' = product.id
    /\ UNCHANGED <<cartVars, regionVars, authVars, pricingVars,
                   pdProduct, pdQuantity, pdSelectedSubscription,
                   pmQuantity, pmSelectedSubscription>>
    /\ UNCHANGED <<checkoutVars, myPagesVars, backendVars>>

\* <Link to="/cart">: Cart mounts with its initial state and runs its effect.
OpenCart ==
    /\ page \in {"products", "detail"}
    /\ page' = "cart"
    /\ DetailUnmounted
    /\ cartCalculation' = NoCalculation
    /\ cartFailed' = "no"
    /\ IF Len(cart) > 0
       THEN /\ cartLoading' = TRUE
            /\ cartReqs' = SetToBag({CartRequest(cart, region)})
       ELSE /\ cartLoading' = FALSE
            /\ cartReqs' = EmptyBag
    /\ UNCHANGED <<cartVars, regionVars, authVars,
                   pmProduct, pmQuantity, pmSelectedSubscription>>
    /\ UNCHANGED <<checkoutVars, myPagesVars, backendVars>>

\* ---------------------------------------------------------- Products page
\* Products.handleAddToCart: the card's 'Add to Cart', 'Weekly', 'Monthly'.
ProductsAddToCart(product, subscriptionType) ==
    /\ page = "products"
    /\ subscriptionType = "one-time" \/ product.subscription_eligible
    /\ WithinPageBounds(addToCart(cart, product, 1, subscriptionType))
    /\ cart' = addToCart(cart, product, 1, subscriptionType)
    /\ last' = Call("addToCart", product.id, subscriptionType, 1)
    /\ UNCHANGED <<regionVars, authVars, pageVars, pricingVars>>
    /\ UNCHANGED <<checkoutVars, myPagesVars, backendVars>>

\* ----------------------------------------------------------- ProductDetail
PdMinus ==
    /\ page = "detail"
    /\ ~(pdQuantity <= 1)                       \* disabled={quantity <= 1}
    /\ pdQuantity' = IF pdQuantity - 1 > 1 THEN pdQuantity - 1 ELSE 1
    /\ UNCHANGED <<cartVars, regionVars, authVars, pricingVars, page, pdProduct,
                   pdSelectedSubscription, pmProduct, pmQuantity,
                   pmSelectedSubscription>>
    /\ UNCHANGED <<checkoutVars, myPagesVars, backendVars>>

\* disabled={quantity >= stockCount}, stockCount drawn anew at every render.
PdPlus ==
    /\ page = "detail"
    /\ pdQuantity < MaxQty
    /\ pdQuantity' = pdQuantity + 1
    /\ UNCHANGED <<cartVars, regionVars, authVars, pricingVars, page, pdProduct,
                   pdSelectedSubscription, pmProduct, pmQuantity,
                   pmSelectedSubscription>>
    /\ UNCHANGED <<checkoutVars, myPagesVars, backendVars>>

\* The selector is rendered for subscription-eligible products only.
PdSelectSubscription(s) ==
    /\ page = "detail"
    /\ ProductById(pdProduct).subscription_eligible
    /\ pdSelectedSubscription # s
    /\ pdSelectedSubscription' = s
    /\ UNCHANGED <<cartVars, regionVars, authVars, pricingVars, page, pdProduct,
                   pdQuantity, pmProduct, pmQuantity, pmSelectedSubscription>>
    /\ UNCHANGED <<checkoutVars, myPagesVars, backendVars>>

\* ProductDetail.handleAddToCart
PdAddToCart ==
    /\ page = "detail"
    /\ pdProduct # NoProduct
    /\ LET new == addToCart(cart, ProductById(pdProduct), pdQuantity,
                            pdSelectedSubscription)
       IN  /\ WithinPageBounds(new)
           /\ cart' = new
    /\ last' = Call("addToCart", pdProduct, pdSelectedSubscription, pdQuantity)
    /\ UNCHANGED <<regionVars, authVars, pageVars, pricingVars>>
    /\ UNCHANGED <<checkoutVars, myPagesVars, backendVars>>

\* ------------------------------------------------------------ ProductModal
\* The - button without the Math.max(1, ...) floor.
PmMinus_noFloor ==
    /\ page = "modal"
    /\ pmQuantity > 0 - MaxQty
    /\ pmQuantity' = pmQuantity - 1
    /\ UNCHANGED <<cartVars, regionVars, authVars, pricingVars, page, pdProduct,
                   pdQuantity, pdSelectedSubscription, pmProduct,
                   pmSelectedSubscription>>
    /\ UNCHANGED <<checkoutVars, myPagesVars, backendVars>>

PmMinus ==
    /\ page = "modal"
    /\ pmQuantity' = IF pmQuantity - 1 > 1 THEN pmQuantity - 1 ELSE 1
    /\ UNCHANGED <<cartVars, regionVars, authVars, pricingVars, page, pdProduct,
                   pdQuantity, pdSelectedSubscription, pmProduct,
                   pmSelectedSubscription>>
    /\ UNCHANGED <<checkoutVars, myPagesVars, backendVars>>

PmPlus ==
    /\ page = "modal"
    /\ pmQuantity < MaxQty
    /\ pmQuantity' = pmQuantity + 1
    /\ UNCHANGED <<cartVars, regionVars, authVars, pricingVars, page, pdProduct,
                   pdQuantity, pdSelectedSubscription, pmProduct,
                   pmSelectedSubscription>>
    /\ UNCHANGED <<checkoutVars, myPagesVars, backendVars>>

PmSelectSubscription(s) ==
    /\ page = "modal"
    /\ ProductById(pmProduct).subscription_eligible
    /\ pmSelectedSubscription # s
    /\ pmSelectedSubscription' = s
    /\ UNCHANGED <<cartVars, regionVars, authVars, pricingVars, page, pdProduct,
                   pdQuantity, pdSelectedSubscription, pmProduct, pmQuantity>>
    /\ UNCHANGED <<checkoutVars, myPagesVars, backendVars>>

\* ProductModal.handleAddToCart: addToCart, toast, onClose().
PmAddToCart ==
    /\ page = "modal"
    /\ LET new == addToCart(cart, ProductById(pmProduct), pmQuantity,
                            pmSelectedSubscription)
       IN  /\ WithinPageBounds(new)
           /\ cart' = new
    /\ last' = Call("addToCart", pmProduct, pmSelectedSubscription, pmQuantity)
    /\ page' = "products"
    /\ pmProduct' = NoProduct
    /\ UNCHANGED <<regionVars, authVars, pricingVars, pdProduct, pdQuantity,
                   pdSelectedSubscription, pmQuantity, pmSelectedSubscription>>
    /\ UNCHANGED <<checkoutVars, myPagesVars, backendVars>>

\* ---------------------------------------------------------------- Cart page
\* The + and - buttons of the i-th displayed line: the key and the quantity
\* are those of the displayed priced cart, not of the cart.
CartStep(i, delta) ==
    /\ CartShown
    /\ i \in 1..Len(cartCalculation.items)
    /\ LET item == cartCalculation.items[i]
           new == updateCartQuantity(cart, item.product_id,
                                     item.subscription_type, item.quantity + delta)
       IN  /\ WithinPageBounds(new)
           /\ cart' = new
           /\ last' = Call("updateCartQuantity", item.product_id,
                           item.subscription_type, item.quantity + delta)
           /\ CartEffect(new, region)
    /\ UNCHANGED <<regionVars, authVars, pageVars>>
    /\ UNCHANGED <<checkoutVars, myPagesVars, backendVars>>

CartPlus(i) == CartStep(i, 1)

CartMinus(i) == CartStep(i, 0 - 1)

\* The Remove button of the i-th displayed line.
CartRemove(i) ==
    /\ CartShown
    /\ i \in 1..Len(cartCalculation.items)
    /\ LET item == cartCalculation.items[i]
           new == removeFromCart(cart, item.product_id, item.subscription_type)
       IN  /\ cart' = new
           /\ last' = Call("removeFromCart", item.product_id,
                           item.subscription_type, 0)
           /\ CartEffect(new, region)
    /\ UNCHANGED <<regionVars, authVars, pageVars>>
    /\ UNCHANGED <<checkoutVars, myPagesVars, backendVars>>

\* calculateCart after the await: the response arrived.
CartResponse(req) ==
    /\ page = "cart"
    /\ BagIn(req, cartReqs)
    /\ cartReqs' = OneLess(cartReqs, req)
    /\ cartCalculation' = price_cart(req.items, req.region)
    /\ cartLoading' = FALSE
    /\ cartFailed' = IF cartFailed = "last" THEN "earlier" ELSE cartFailed
    /\ UNCHANGED <<cartVars, regionVars, authVars, pageVars>>
    /\ UNCHANGED <<checkoutVars, myPagesVars, backendVars>>

\* calculateCart's catch: the request failed.
CartFailure(req) ==
    /\ page = "cart"
    /\ BagIn(req, cartReqs)
    /\ cartReqs' = OneLess(cartReqs, req)
    /\ cartLoading' = FALSE
    /\ cartFailed' = "last"
    /\ UNCHANGED <<cartVars, regionVars, authVars, pageVars, cartCalculation>>
    /\ UNCHANGED <<checkoutVars, myPagesVars, backendVars>>

\* ----------------------------------------------------- Header region select
\* onChange={(e) => setRegion(e.target.value)}, the effect that stores the
\* region, and Cart's effect when Cart is mounted.
SetRegion(r) ==
    /\ r # region
    /\ region' = r
    /\ selectedRegion' = r
    /\ regionDefault' = IF regionDefault = "profile" THEN "picked" ELSE regionDefault
    /\ IF page = "cart" THEN CartEffect(cart, r) ELSE UNCHANGED pricingVars
    /\ UNCHANGED <<cartVars, authVars, pageVars>>
    /\ UNCHANGED <<checkoutVars, myPagesVars, backendVars>>

NextUI ==
    \/ GoProducts
    \/ OpenCart
    \/ \E product \in Products : OpenDetail(product)
    \/ \E product \in Products : OpenModal(product)
    \/ \E product \in Products, s \in SubscriptionTypes :
            ProductsAddToCart(product, s)
    \/ PdMinus
    \/ PdPlus
    \/ \E s \in SubscriptionTypes : PdSelectSubscription(s)
    \/ PdAddToCart
    \/ PmMinus
    \/ PmPlus
    \/ \E s \in SubscriptionTypes : PmSelectSubscription(s)
    \/ PmAddToCart
    \/ \E i \in 1..MaxLines : CartPlus(i)
    \/ \E i \in 1..MaxLines : CartMinus(i)
    \/ \E i \in 1..MaxLines : CartRemove(i)
    \/ \E req \in BagToSet(cartReqs) : CartResponse(req)
    \/ \E req \in BagToSet(cartReqs) : CartFailure(req)
    \/ \E r \in RegionOptions : SetRegion(r)

\* The storefront driven through its pages.
SpecUI == Init /\ [][NextUI]_vars

\* ------------------------------------------------------------- the server
\* The registered accounts; bob is the administrator.
Accounts == {"alice", "bob"}

IsAdmin(a) == a = "bob"

\* Lifetimes of an access token (about 30 minutes) and of a refresh token
\* (about 7 days), in clock ticks.
AccessTtl == 1
RefreshTtl == 2

\* A signed token: it encodes user_id, issued-at, expiry and its type; a
\* refresh token also says whether a rotation produced it.
AccessToken(a, t) ==
    [type |-> "access", user_id |-> a, iat |-> t, exp |-> t + AccessTtl,
     signed |-> TRUE]

RefreshToken(a, t, rotated) ==
    [type |-> "refresh", user_id |-> a, iat |-> t, exp |-> t + RefreshTtl,
     rotated |-> rotated, signed |-> TRUE]

\* login: the token pair issued to an account, at the current instant.
TokenPair(a) ==
    [access_token |-> AccessToken(a, now),
     refresh_token |-> RefreshToken(a, now, FALSE)]

\* GET / PUT /user/profile: the profile of the token's account, with the
\* region the server holds for it.
Profile(token, r) ==
    [id |-> token.user_id, region |-> r, is_admin |-> IsAdmin(token.user_id)]

\* ------------------------------------------------------------ route guards
ProtectedRoute(u, ld) ==
    IF ld THEN "loading"
    ELSE IF u # NoUser THEN "children" ELSE "/login"

\* AdminRoute without the is_admin test.
AdminRoute_noAdminTest(u, ld) ==
    IF ld THEN "loading"
    ELSE IF u = NoUser THEN "/login" ELSE "children"

AdminRoute(u, ld) ==
    IF ld THEN "loading"
    ELSE IF u = NoUser THEN "/login"
    ELSE IF ~u.is_admin THEN "/"
    ELSE "children"

\* ------------------------------------------------------------ AuthProvider
\* Requests of the auth context in flight.
AuthInflight ==
    BagCardinality(profileReqs) + BagCardinality(loginReqs)
        + BagCardinality(updateReqs)

\* Login.handleSubmit -> login(email, password), up to the first await. The
\* Login page leaves for '/' as soon as user is set.
LoginSubmit(a) ==
    /\ user = NoUser
    /\ AuthInflight < MaxInflight
    /\ loginReqs' = OneMore(loginReqs, [email |-> a])
    /\ loggedOut' = FALSE
    /\ UNCHANGED <<cartVars, regionVars, pageVars, pricingVars, user, loading,
                   access_token, refresh_token, profileReqs, updateReqs>>
    /\ UNCHANGED <<checkoutVars, myPagesVars, backendVars>>

\* login: POST /auth/login answered with a token pair; the tokens are stored
\* and fetchUserProfile(access_token) is awaited.
LoginResponse(req) ==
    /\ BagIn(req, loginReqs)
    /\ loginReqs' = OneLess(loginReqs, req)
    /\ access_token' = TokenPair(req.email).access_token
    /\ refresh_token' = TokenPair(req.email).refresh_token
    /\ profileReqs' = OneMore(profileReqs,
                              [token |-> TokenPair(req.email).access_token,
                               origin |-> "login"])
    /\ UNCHANGED <<cartVars, regionVars, pageVars, pricingVars, user, loading,
                   updateReqs,
                   loggedOut>>
    /\ UNCHANGED <<checkoutVars, myPagesVars, backendVars>>

\* login's catch: { success: false }.
LoginFailure(req) ==
    /\ BagIn(req, loginReqs)
    /\ loginReqs' = OneLess(loginReqs, req)
    /\ UNCHANGED <<cartVars, regionVars, pageVars, pricingVars, user, loading,
                   access_token, refresh_token, profileReqs, updateReqs,
                   loggedOut>>
    /\ UNCHANGED <<checkoutVars, myPagesVars, backendVars>>

\* fetchUserProfile after the await: setUser(response.data), setLoading(false).
\* When login awaited it, login resolves { success: true }.
ProfileResponse(req, r) ==
    /\ BagIn(req, profileReqs)
    /\ req.token # NoToken
    /\ profileReqs' = OneLess(profileReqs, req)
    /\ user' = Profile(req.token, r)
    /\ loading' = FALSE
    /\ regionDefault' = IF req.origin = "login" THEN "profile" ELSE regionDefault
    /\ UNCHANGED <<cartVars, region, selectedRegion, pageVars, pricingVars,
                   access_token, refresh_token, loginReqs, updateReqs,
                   loggedOut>>
    /\ UNCHANGED <<checkoutVars, myPagesVars, backendVars>>

\* fetchUserProfile without its finally block.
ProfileFailure_noFinally(req) ==
    /\ BagIn(req, profileReqs)
    /\ profileReqs' = OneLess(profileReqs, req)
    /\ access_token' = NoToken
    /\ refresh_token' = NoToken
    /\ UNCHANGED <<cartVars, regionVars, pageVars, pricingVars, user, loading,
                   loginReqs, updateReqs, loggedOut>>
    /\ UNCHANGED <<checkoutVars, myPagesVars, backendVars>>

\* fetchUserProfile's catch and finally: both tokens removed, setLoading(false).
ProfileFailure(req) ==
    /\ BagIn(req, profileReqs)
    /\ profileReqs' = OneLess(profileReqs, req)
    /\ access_token' = NoToken
    /\ refresh_token' = NoToken
    /\ loading' = FALSE
    /\ UNCHANGED <<cartVars, regionVars, pageVars, pricingVars, user,
                   loginReqs, updateReqs,
                   loggedOut>>
    /\ UNCHANGED <<checkoutVars, myPagesVars, backendVars>>

\* Header.handleLogout / Profile.handleLogout; the button needs a user.
Logout ==
    /\ user # NoUser
    /\ access_token' = NoToken
    /\ refresh_token' = NoToken
    /\ user' = NoUser
    /\ loggedOut' = TRUE
    /\ regionDefault' = "none"
    /\ UNCHANGED <<cartVars, region, selectedRegion, pageVars, pricingVars,
                   loading, profileReqs, loginReqs, updateReqs>>
    /\ UNCHANGED <<checkoutVars, myPagesVars, backendVars>>

\* Profile.handleUpdateProfile -> updateProfile({ region }), up to the await.
\* Profile is a child of ProtectedRoute.
UpdateProfileSubmit(r) ==
    /\ ProtectedRoute(user, loading) = "children"
    /\ AuthInflight < MaxInflight
    /\ updateReqs' = OneMore(updateReqs, [token |-> access_token, region |-> r])
    /\ UNCHANGED <<cartVars, regionVars, pageVars, pricingVars, user, loading,
                   access_token, refresh_token, profileReqs, loginReqs,
                   loggedOut>>
    /\ UNCHANGED <<checkoutVars, myPagesVars, backendVars>>

\* updateProfile after the await: setUser(response.data).
UpdateProfileResponse(req) ==
    /\ BagIn(req, updateReqs)
    /\ req.token # NoToken
    /\ updateReqs' = OneLess(updateReqs, req)
    /\ user' = Profile(req.token, req.region)
    /\ regionDefault' = "profile"
    /\ UNCHANGED <<cartVars, region, selectedRegion, pageVars, pricingVars,
                   loading, access_token, refresh_token, profileReqs, loginReqs,
                   loggedOut>>
    /\ UNCHANGED <<checkoutVars, myPagesVars, backendVars>>

\* updateProfile's catch: { success: false }.
UpdateProfileFailure(req) ==
    /\ BagIn(req, updateReqs)
    /\ updateReqs' = OneLess(updateReqs, req)
    /\ UNCHANGED <<cartVars, regionVars, pageVars, pricingVars, user, loading,
                   access_token, refresh_token, profileReqs, loginReqs,
                   loggedOut>>
    /\ UNCHANGED <<checkoutVars, myPagesVars, backendVars>>

\* The page is loaded again: every component state is built anew from
\* localStorage, the mount effects run, and no response reaches the old page.
Reload ==
    /\ cart' = <<>>
    /\ last' = NoCall
    /\ region' = InitialRegion(selectedRegion)
    /\ selectedRegion' = InitialRegion(selectedRegion)
    /\ regionDefault' = "none"
    /\ user' = NoUser
    /\ loading' = (access_token # NoToken)
    /\ profileReqs' = IF access_token # NoToken
                      THEN SetToBag({[token |-> access_token, origin |-> "mount"]})
                      ELSE EmptyBag
    /\ loginReqs' = EmptyBag
    /\ updateReqs' = EmptyBag
    /\ page' = "products"
    /\ pmProduct' = NoProduct
    /\ pmQuantity' = 1
    /\ pmSelectedSubscription' = "one-time"
    /\ DetailUnmounted
    /\ CartUnmounted
    /\ UNCHANGED <<access_token, refresh_token, loggedOut>>
    /\ CheckoutUnmounted
    /\ MyPagesUnmounted
    /\ UNCHANGED backendVars

NextAuth ==
    \/ \E a \in Accounts : LoginSubmit(a)
    \/ \E req \in BagToSet(loginReqs) : LoginResponse(req)
    \/ \E req \in BagToSet(loginReqs) : LoginFailure(req)
    \/ \E req \in BagToSet(profileReqs), r \in RegionOptions : ProfileResponse(req, r)
    \/ \E req \in BagToSet(profileReqs) : ProfileFailure(req)
    \/ Logout
    \/ \E r \in RegionOptions : UpdateProfileSubmit(r)
    \/ \E req \in BagToSet(updateReqs) : UpdateProfileResponse(req)
    \/ \E req \in BagToSet(updateReqs) : UpdateProfileFailure(req)
    \/ \E r \in RegionOptions : SetRegion(r)
    \/ Reload

\* The auth context, the region selector and page reloads.
SpecAuth == Init /\ [][NextAuth]_vars

\* GET /user/profile is answered or fails: the awaited promise settles.
ProfileCompletes ==
    \E req \in BagToSet(profileReqs) :
        \/ ProfileFailure(req)
        \/ \E r \in RegionOptions : ProfileResponse(req, r)

\* The auth context when every profile request in flight completes.
SpecAuthLive == Init /\ [][NextAuth]_vars /\ WF_vars(ProfileCompletes)

\* ----------------------------------------------------------------- Checkout
\* useState: country: region === 'India' ? 'India' : 'Canada'
InitialCountry(r) == IF r = "India" THEN "India" ELSE "Canada"

\* The body of POST /payments/checkout.
CheckoutRequest(c, address, r) ==
    [cart_items |-> cartItems(c), delivery_address |-> address, region |-> r]

\* /checkout: Checkout mounts with its initial state.
OpenCheckout ==
    /\ page # "checkout"
    /\ page' = "checkout"
    /\ pmProduct' = NoProduct
    /\ DetailUnmounted
    /\ CartUnmounted
    /\ checkoutLoading' = FALSE
    /\ deliveryAddress' = [country |-> InitialCountry(region)]
    /\ checkoutReqs' = EmptyBag
    /\ UNCHANGED <<cartVars, regionVars, authVars, pmQuantity, pmSelectedSubscription>>
    /\ UNCHANGED <<myPagesVars, backendVars>>

\* handleCheckout with a submit button that is never disabled.
SubmitCheckout_notDisabled ==
    /\ page = "checkout"
    /\ Len(cart) # 0
    /\ BagCardinality(checkoutReqs) < MaxInflight
    /\ checkoutLoading' = TRUE
    /\ checkoutReqs' = OneMore(checkoutReqs,
                               CheckoutRequest(cart, deliveryAddress, region))
    /\ UNCHANGED <<cartVars, regionVars, authVars, pageVars, pricingVars,
                   deliveryAddress>>
    /\ UNCHANGED <<myPagesVars, backendVars>>

\* The form's submit -> handleCheckout, up to the await. The form is rendered
\* for a cart that is not empty, its button is disabled while loading.
SubmitCheckout ==
    /\ page = "checkout"
    /\ Len(cart) # 0                            \* if (cart.length === 0) return ...
    /\ ~checkoutLoading                         \* disabled={loading}
    /\ BagCardinality(checkoutReqs) < MaxInflight
    /\ checkoutLoading' = TRUE
    /\ checkoutReqs' = OneMore(checkoutReqs,
                               CheckoutRequest(cart, deliveryAddress, region))
    /\ UNCHANGED <<cartVars, regionVars, authVars, pageVars, pricingVars,
                   deliveryAddress>>
    /\ UNCHANGED <<myPagesVars, backendVars>>

\* handleCheckout after the await: the gateway hand-over, then finally
\* setLoading(false).
CheckoutResponse(req) ==
    /\ BagIn(req, checkoutReqs)
    /\ checkoutReqs' = OneLess(checkoutReqs, req)
    /\ checkoutLoading' = FALSE
    /\ UNCHANGED <<cartVars, regionVars, authVars, pageVars, pricingVars,
                   deliveryAddress>>
    /\ UNCHANGED <<myPagesVars, backendVars>>

\* handleCheckout's catch (alert) and finally.
CheckoutFailure(req) ==
    /\ BagIn(req, checkoutReqs)
    /\ checkoutReqs' = OneLess(checkoutReqs, req)
    /\ checkoutLoading' = FALSE
    /\ UNCHANGED <<cartVars, regionVars, authVars, pageVars, pricingVars,
                   deliveryAddress>>
    /\ UNCHANGED <<myPagesVars, backendVars>>

\* No page changes the cart while Checkout is on screen.
NextCheckout ==
    \/ page # "checkout" /\ NextCart
    \/ OpenCheckout
    \/ GoProducts
    \/ SubmitCheckout
    \/ \E req \in BagToSet(checkoutReqs) : CheckoutResponse(req)
    \/ \E req \in BagToSet(checkoutReqs) : CheckoutFailure(req)
    \/ \E r \in RegionOptions : SetRegion(r)
    \/ Reload

\* The cart, the region selector of the header and the Checkout page.
SpecCheckout == Init /\ [][NextCheckout]_vars

\* ------------------------------------------ OrderHistory, MySubscriptions
\* Longest list a page displays.
MaxLists == 1

\* response.data of GET /users/orders and of GET /users/subscriptions: what
\* the server holds for the user.
ServerOrderLists ==
    {<<>>, <<[id |-> "ORDER_001", order_status |-> "pending"]>>}

ServerSubscriptionLists ==
    {<<>>} \cup {<<[id |-> "SUB_001", status |-> st]>> :
                    st \in {"active", "paused", "cancelled"}}

\* The lists the two catch blocks set.
DemoOrders == <<[id |-> "ORDER_DEMO_001", order_status |-> "delivered"]>>
DemoSubscriptions == <<[id |-> "SUB_DEMO_001", status |-> "active"]>>

Elements(list) == {list[i] : i \in 1..Len(list)}

\* The buttons of a subscription card.
SubscriptionActions(status) ==
    CASE status = "active" -> {"pause", "cancel"}
      [] status = "paused" -> {"resume"}
      [] OTHER -> {}

\* /my-orders: OrderHistory mounts and its effect calls fetchUserOrders.
OpenOrderHistory ==
    /\ ProtectedRoute(user, loading) = "children"
    /\ page # "my-orders"
    /\ page' = "my-orders"
    /\ pmProduct' = NoProduct
    /\ DetailUnmounted
    /\ CartUnmounted
    /\ CheckoutUnmounted
    /\ orders' = <<>>
    /\ subscriptions' = <<>>
    /\ pageReqs' = SetToBag({[kind |-> "orders", token |-> access_token]})
    /\ lastAlert' = NoAlert
    /\ UNCHANGED <<cartVars, regionVars, authVars, pmQuantity,
                   pmSelectedSubscription, returned>>
    /\ UNCHANGED backendVars

\* A filter of OrderHistory is changed: the effect calls fetchUserOrders.
FilterOrders ==
    /\ page = "my-orders"
    /\ BagCardinality(pageReqs) < MaxInflight
    /\ pageReqs' = OneMore(pageReqs, [kind |-> "orders", token |-> access_token])
    /\ UNCHANGED <<cartVars, regionVars, authVars, pageVars, pricingVars,
                   checkoutVars, orders, subscriptions, lastAlert, returned>>
    /\ UNCHANGED backendVars

\* fetchUserOrders after the await: setOrders(response.data).
OrdersResponse(req, data) ==
    /\ BagIn(req, pageReqs)
    /\ req.kind = "orders"
    /\ pageReqs' = OneLess(pageReqs, req)
    /\ orders' = data
    /\ returned' = returned \cup Elements(data)
    /\ UNCHANGED <<cartVars, regionVars, authVars, pageVars, pricingVars,
                   checkoutVars, subscriptions, lastAlert>>
    /\ UNCHANGED backendVars

\* fetchUserOrders's catch: setOrders([ the demo order ]).
OrdersFailure(req) ==
    /\ BagIn(req, pageReqs)
    /\ req.kind = "orders"
    /\ pageReqs' = OneLess(pageReqs, req)
    /\ orders' = DemoOrders
    /\ UNCHANGED <<cartVars, regionVars, authVars, pageVars, pricingVars,
                   checkoutVars, subscriptions, lastAlert, returned>>
    /\ UNCHANGED backendVars

\* /my-subscriptions: MySubscriptions mounts and its effect calls
\* fetchUserSubscriptions.
OpenMySubscriptions ==
    /\ ProtectedRoute(user, loading) = "children"
    /\ page # "my-subscriptions"
    /\ page' = "my-subscriptions"
    /\ pmProduct' = NoProduct
    /\ DetailUnmounted
    /\ CartUnmounted
    /\ CheckoutUnmounted
    /\ orders' = <<>>
    /\ subscriptions' = <<>>
    /\ pageReqs' = SetToBag({[kind |-> "subscriptions", token |-> access_token]})
    /\ lastAlert' = NoAlert
    /\ UNCHANGED <<cartVars, regionVars, authVars, pmQuantity,
                   pmSelectedSubscription, returned>>
    /\ UNCHANGED backendVars

\* fetchUserSubscriptions after the await: setSubscriptions(response.data).
SubscriptionsResponse(req, data) ==
    /\ BagIn(req, pageReqs)
    /\ req.kind = "subscriptions"
    /\ pageReqs' = OneLess(pageReqs, req)
    /\ subscriptions' = data
    /\ returned' = returned \cup Elements(data)
    /\ UNCHANGED <<cartVars, regionVars, authVars, pageVars, pricingVars,
                   checkoutVars, orders, lastAlert>>
    /\ UNCHANGED backendVars

\* fetchUserSubscriptions's catch: setSubscriptions([ the demo subscription ]).
SubscriptionsFailure(req) ==
    /\ BagIn(req, pageReqs)
    /\ req.kind = "subscriptions"
    /\ pageReqs' = OneLess(pageReqs, req)
    /\ subscriptions' = DemoSubscriptions
    /\ UNCHANGED <<cartVars, regionVars, authVars, pageVars, pricingVars,
                   checkoutVars, orders, lastAlert, returned>>
    /\ UNCHANGED backendVars

\* handleSubscriptionAction(subscription.id, action), up to the await.
SubscriptionAction(i, action) ==
    /\ page = "my-subscriptions"
    /\ i \in 1..Len(subscriptions)
    /\ action \in SubscriptionActions(subscriptions[i].status)
    /\ BagCardinality(pageReqs) < MaxInflight
    /\ pageReqs' = OneMore(pageReqs, [kind |-> "action", token |-> access_token,
                                      id |-> subscriptions[i].id,
                                      action |-> action])
    /\ UNCHANGED <<cartVars, regionVars, authVars, pageVars, pricingVars,
                   checkoutVars, orders, subscriptions, lastAlert, returned>>
    /\ UNCHANGED backendVars

\* handleSubscriptionAction after the await: fetchUserSubscriptions().
SubscriptionActionResponse(req) ==
    /\ BagIn(req, pageReqs)
    /\ req.kind = "action"
    /\ pageReqs' = OneMore(OneLess(pageReqs, req),
                           [kind |-> "subscriptions", token |-> access_token])
    /\ UNCHANGED <<cartVars, regionVars, authVars, pageVars, pricingVars,
                   checkoutVars, orders, subscriptions, lastAlert, returned>>
    /\ UNCHANGED backendVars

\* handleSubscriptionAction's catch:
\* alert(`Subscription ${action} successful! (Demo mode)`).
SubscriptionActionFailure(req) ==
    /\ BagIn(req, pageReqs)
    /\ req.kind = "action"
    /\ pageReqs' = OneLess(pageReqs, req)
    /\ lastAlert' = [action |-> req.action, text |-> "successful"]
    /\ UNCHANGED <<cartVars, regionVars, authVars, pageVars, pricingVars,
                   checkoutVars, orders, subscriptions, returned>>
    /\ UNCHANGED backendVars

NextMyPages ==
    \/ OpenOrderHistory
    \/ FilterOrders
    \/ \E req \in BagToSet(pageReqs), data \in ServerOrderLists :
            OrdersResponse(req, data)
    \/ \E req \in BagToSet(pageReqs) : OrdersFailure(req)
    \/ OpenMySubscriptions
    \/ \E req \in BagToSet(pageReqs), data \in ServerSubscriptionLists :
            SubscriptionsResponse(req, data)
    \/ \E req \in BagToSet(pageReqs) : SubscriptionsFailure(req)
    \/ \E i \in 1..MaxLists, action \in {"pause", "cancel", "resume"} :
            SubscriptionAction(i, action)
    \/ \E req \in BagToSet(pageReqs) : SubscriptionActionResponse(req)
    \/ \E req \in BagToSet(pageReqs) : SubscriptionActionFailure(req)
    \/ GoProducts

\* A user (alice) is logged in and is on the product list.
InitMyPages ==
    /\ ServerInit
    /\ AdminInit
    /\ CheckoutInit
    /\ MyPagesInit
    /\ cart = <<>>
    /\ region = InitialRegion(Null)
    /\ selectedRegion = InitialRegion(Null)
    /\ user = Profile(TokenPair("alice").access_token, "India")
    /\ loading = FALSE
    /\ access_token = TokenPair("alice").access_token
    /\ refresh_token = TokenPair("alice").refresh_token
    /\ profileReqs = EmptyBag
    /\ loginReqs = EmptyBag
    /\ updateReqs = EmptyBag
    /\ loggedOut = FALSE
    /\ page = "products"
    /\ pdProduct = NoProduct
    /\ pdQuantity = 1
    /\ pdSelectedSubscription = "one-time"
    /\ pmProduct = NoProduct
    /\ pmQuantity = 1
    /\ pmSelectedSubscription = "one-time"
    /\ cartCalculation = NoCalculation
    /\ cartLoading = FALSE
    /\ cartReqs = EmptyBag
    /\ cartFailed = "no"
    /\ last = NoCall
    /\ regionDefault = "profile"

\* The order history and the subscriptions of a logged-in user.
SpecMyPages == InitMyPages /\ [][NextMyPages]_vars

\* ------------------------------------------------------ Admin: orders tab
\* Largest number of PUT /admin/orders requests in flight at a time.
MaxOrderPuts == 1

\* Largest number of fields of the edit form changed at a time.
MaxPending == 2

\* The orders tab is on screen: Admin is a child of AdminRoute.
OrdersShown == page = "admin" /\ AdminRoute(user, loading) = "children"

\* 'Edit Order', shown for every order that is not the one being edited.
EditOrder(o) ==
    /\ OrdersShown
    /\ editingOrder # o
    /\ editingOrder' = o
    /\ UNCHANGED <<clientVars, serverVars, orderStore, orderUpdates, orderReqs,
                   enteredFor>>

\* Number of fields of the edit form that hold a change.
Pending(updates) == Cardinality({field \in DOMAIN updates : updates[field] # ""})

\* onChange of one control of the edit form:
\* setOrderUpdates(prev => ({...prev, [field]: e.target.value})).
ChangeOrderField(field, value) ==
    /\ OrdersShown
    /\ editingOrder # Null
    /\ orderUpdates[field] # value
    /\ orderUpdates[field] # "" \/ Pending(orderUpdates) < MaxPending
    /\ orderUpdates' = [orderUpdates EXCEPT ![field] = value]
    /\ enteredFor' = [enteredFor EXCEPT ![field] = editingOrder]
    /\ UNCHANGED <<clientVars, serverVars, orderStore, editingOrder, orderReqs>>

\* 'Cancel': setEditingOrder(null).
CancelEdit ==
    /\ OrdersShown
    /\ editingOrder # Null
    /\ editingOrder' = Null
    /\ UNCHANGED <<clientVars, serverVars, orderStore, orderUpdates, orderReqs,
                   enteredFor>>

\* 'Save': handleUpdateOrder(order.id) -> updateOrderStatus(orderId,
\* orderUpdates) up to the await, then the form is closed and emptied.
SaveOrder ==
    /\ OrdersShown
    /\ editingOrder # Null
    /\ IF access_token = NoToken                      \* if (!token) return;
       THEN UNCHANGED orderReqs
       ELSE /\ BagCardinality(orderReqs) < MaxOrderPuts
            /\ orderReqs' = OneMore(orderReqs, [order_id |-> editingOrder,
                                                updates |-> orderUpdates])
    /\ editingOrder' = Null
    /\ orderUpdates' = NoUpdates
    /\ enteredFor' = NoneEntered
    /\ UNCHANGED <<clientVars, serverVars, orderStore>>

\* The server's update of an order (the store's update-by-id): the fields
\* that were sent replace the stored ones.
update_order(status, updates) ==
    IF updates.order_status # "" THEN updates.order_status ELSE status

\* Position of a status on the path pending, confirmed, shipped, delivered.
StatusRank(status) ==
    CASE status = "pending" -> 1
      [] status = "confirmed" -> 2
      [] status = "shipped" -> 3
      [] status = "delivered" -> 4
      [] OTHER -> 5

\* PUT /admin/orders/{id} answered: the order is updated, then fetchOrders().
OrderPutResponse(req) ==
    /\ BagIn(req, orderReqs)
    /\ orderReqs' = OneLess(orderReqs, req)
    /\ orderStore' = [orderStore EXCEPT
                        ![req.order_id] = update_order(@, req.updates)]
    /\ UNCHANGED <<clientVars, serverVars, editingOrder, orderUpdates, enteredFor>>

\* updateOrderStatus's catch: alert('Error updating order').
OrderPutFailure(req) ==
    /\ BagIn(req, orderReqs)
    /\ orderReqs' = OneLess(orderReqs, req)
    /\ UNCHANGED <<clientVars, serverVars, orderStore, editingOrder, orderUpdates,
                   enteredFor>>

OrderFields ==
    {<<"order_status", v>> : v \in OrderStatusOptions}
        \cup {<<"delivery_status", v>> : v \in DeliveryStatusOptions}
        \cup {<<"tracking_link", v>> : v \in TextInputs}
        \cup {<<"notes", v>> : v \in TextInputs}

NextAdmin ==
    \/ \E o \in OrderIds : EditOrder(o)
    \/ \E fv \in OrderFields : ChangeOrderField(fv[1], fv[2])
    \/ CancelEdit
    \/ SaveOrder
    \/ \E req \in BagToSet(orderReqs) : OrderPutResponse(req)
    \/ \E req \in BagToSet(orderReqs) : OrderPutFailure(req)

\* The administrator (bob) is logged in and has opened the orders tab.
InitAdmin ==
    /\ ServerInit
    /\ AdminInit
    /\ cart = <<>>
    /\ region = InitialRegion(Null)
    /\ selectedRegion = InitialRegion(Null)
    /\ user = Profile(TokenPair("bob").access_token, "India")
    /\ loading = FALSE
    /\ access_token = TokenPair("bob").access_token
    /\ refresh_token = TokenPair("bob").refresh_token
    /\ profileReqs = EmptyBag
    /\ loginReqs = EmptyBag
    /\ loggedOut = FALSE
    /\ updateReqs = EmptyBag
    /\ page = "admin"
    /\ pdProduct = NoProduct
    /\ pdQuantity = 1
    /\ pdSelectedSubscription = "one-time"
    /\ pmProduct = NoProduct
    /\ pmQuantity = 1
    /\ pmSelectedSubscription = "one-time"
    /\ cartCalculation = NoCalculation
    /\ cartLoading = FALSE
    /\ cartReqs = EmptyBag
    /\ cartFailed = "no"
    /\ CheckoutInit
    /\ MyPagesInit
    /\ last = NoCall
    /\ regionDefault = "profile"

\* The orders tab of the admin panel driven by an administrator.
SpecAdmin == InitAdmin /\ [][NextAdmin]_vars


\* ------------------------------------------- calls on the commerce engine
\* Regions a caller passes: the two supported ones, other spellings of them
\* and an unknown one.
CallerRegions == {"India", "Canada", "india", "CANADA", "Mars"}

\* Line items a caller sends; product 99 is not in the catalog.
CallerLines ==
    [product_id : ProductIds \cup {99},
     quantity : 1..MaxQty,
     subscription_type : SubscriptionTypes]

CallerCarts == UNION {[1..n -> CallerLines] : n \in 0..MaxCartLen}

\* GET /products/{id}?region=r
PriceProduct(product, r) ==
    /\ priced = NoPricing
    /\ priced' = [op |-> "price_product", product |-> product, region |-> r,
                  result |-> price_product(product, r)]
    /\ UNCHANGED <<clientVars, adminVars, accountVars, tokenVars>>

\* POST /cart
PriceCart(items, r) ==
    /\ priced = NoPricing
    /\ priced' = [op |-> "price_cart", items |-> items, region |-> r,
                  result |-> price_cart(items, r)]
    /\ UNCHANGED <<clientVars, adminVars, accountVars, tokenVars>>

\* The response was delivered; the engine keeps nothing of the call.
PricingReturn ==
    /\ priced # NoPricing
    /\ priced' = NoPricing
    /\ UNCHANGED <<clientVars, adminVars, accountVars, tokenVars>>

\* The engine takes one call at a time.
NextPricing ==
    \/ /\ priced = NoPricing
       /\ \E product \in Products, r \in CallerRegions : PriceProduct(product, r)
    \/ /\ priced = NoPricing
       /\ \E items \in CallerCarts, r \in CallerRegions : PriceCart(items, r)
    \/ PricingReturn

\* The commerce engine answering arbitrary pricing calls.
SpecPricing == Init /\ [][NextPricing]_vars


\* ----------------------------------------------- AuthSession Manager: users
\* Last instant of the clock.
MaxTime == 3
\* Largest number of stored users.
MaxUsers == 2

\* Lifetimes of the e-mail verification token (policy: 24h) and of the
\* password reset token (policy: 1h), in clock ticks.
VerifyTtl == 2
ResetTtl == 1

\* E-mail addresses are compared without regard to letter case.
Lower(email) == IF email = "A@x.com" THEN "a@x.com" ELSE email

\* The salted hash of a password: never the password itself.
Hash(password) == [hash_of |-> password]

EmailExists(us, email) == \E i \in 1..Len(us) : us[i].email = Lower(email)

UserOf(us, email) == CHOOSE i \in 1..Len(us) : us[i].email = Lower(email)

\* The opaque token generated for an e-mail address at an instant.
Opaque(kind, email, t) == [kind |-> kind, email |-> Lower(email), at |-> t]

\* A token is usable up to its expiry and not after it.
Expired(expiry, t) == t > expiry

\* register, up to the store insert: the lookup and the validation.
register_check(us, email, password, r) ==
    IF EmailExists(us, email) THEN "DuplicateEmail"
    ELSE IF r \notin SupportedRegions THEN "InvalidRegion"
    ELSE IF Len(password) < 6 THEN "WeakPassword"
    ELSE "ok"

\* The user register creates: unverified, with a verification token.
NewUser(email, password, r, t) ==
    [email |-> Lower(email),
     password_hash |-> Hash(password),
     region |-> r,
     is_email_verified |-> FALSE,
     verification_token |-> Opaque("verify", email, t),
     verification_expiry |-> t + VerifyTtl,
     reset_token |-> NoOpaque,
     reset_expiry |-> 0]

\* The store's insert without its uniqueness constraint on email.
insert_user_noConstraint(us, u) ==
    [result |-> "created", users |-> Append(us, u)]

\* The store's insert of a user: the uniqueness constraint on email is
\* enforced by the store.
insert_user(us, u) ==
    IF \E i \in 1..Len(us) : us[i].email = u.email
    THEN [result |-> "DuplicateEmail", users |-> us]
    ELSE [result |-> "created", users |-> Append(us, u)]

\* login: undifferentiated InvalidCredentials.
login(us, email, password) ==
    IF EmailExists(us, email)
          /\ us[UserOf(us, email)].password_hash = Hash(password)
    THEN "ok"
    ELSE "InvalidCredentials"

\* verify_email that does not look at the expiry.
verify_email_noExpiry(us, token, t) ==
    LET hit == {i \in 1..Len(us) :
                    token # NoOpaque /\ us[i].verification_token = token}
    IN  IF hit = {}
        THEN [result |-> "InvalidOrExpiredToken", users |-> us]
        ELSE [result |-> "ok",
              users |-> [i \in 1..Len(us) |->
                            IF i \in hit
                            THEN [us[i] EXCEPT !.is_email_verified = TRUE,
                                               !.verification_token = NoOpaque,
                                               !.verification_expiry = 0]
                            ELSE us[i]]]

verify_email(us, token, t) ==
    LET hit == {i \in 1..Len(us) :
                    /\ token # NoOpaque
                    /\ us[i].verification_token = token
                    /\ ~Expired(us[i].verification_expiry, t)}
    IN  IF hit = {}
        THEN [result |-> "InvalidOrExpiredToken", users |-> us]
        ELSE [result |-> "ok",
              users |-> [i \in 1..Len(us) |->
                            IF i \in hit
                            THEN [us[i] EXCEPT !.is_email_verified = TRUE,
                                               !.verification_token = NoOpaque,
                                               !.verification_expiry = 0]
                            ELSE us[i]]]

\* request_password_reset that answers NotFound for an unknown e-mail.
request_password_reset_notFound(us, email, t) ==
    IF EmailExists(us, email)
    THEN [result |-> "ok", generated |-> TRUE,
          users |-> [us EXCEPT ![UserOf(us, email)] =
                        [@ EXCEPT !.reset_token = Opaque("reset", email, t),
                                  !.reset_expiry = t + ResetTtl]]]
    ELSE [result |-> "NotFound", generated |-> FALSE, users |-> us]

\* request_password_reset: the same answer whether or not the e-mail exists.
request_password_reset(us, email, t) ==
    IF EmailExists(us, email)
    THEN [result |-> "ok", generated |-> TRUE,
          users |-> [us EXCEPT ![UserOf(us, email)] =
                        [@ EXCEPT !.reset_token = Opaque("reset", email, t),
                                  !.reset_expiry = t + ResetTtl]]]
    ELSE [result |-> "ok", generated |-> FALSE, users |-> us]

confirm_password_reset(us, token, new_password, t) ==
    LET hit == {i \in 1..Len(us) :
                    /\ token # NoOpaque
                    /\ us[i].reset_token = token
                    /\ ~Expired(us[i].reset_expiry, t)}
    IN  IF hit = {}
        THEN [result |-> "InvalidOrExpiredToken", users |-> us]
        ELSE [result |-> "ok",
              users |-> [i \in 1..Len(us) |->
                            IF i \in hit
                            THEN [us[i] EXCEPT !.password_hash = Hash(new_password),
                                               !.reset_token = NoOpaque,
                                               !.reset_expiry = 0]
                            ELSE us[i]]]

\* PUT profile of the authorized user i.
update_profile(us, i, r) ==
    IF r \notin SupportedRegions
    THEN [result |-> "InvalidRegion", users |-> us]
    ELSE [result |-> "ok", users |-> [us EXCEPT ![i].region = r]]

\* ---------------------------------------------------- the pages' messages
\* Register.handleSubmit with one message for every failure.
RegisterShows_generic(result) ==
    IF result = "created"
    THEN "Registration successful!"
    ELSE "Registration failed. Please try again."

\* Register.handleSubmit: the success text, or the error detail the server
\* sent (AuthProvider.register passes error.response.data.detail on).
RegisterShows(result) ==
    IF result = "created"
    THEN "Registration successful!"
    ELSE result

\* ResetPassword.handleSubmit: one text for every answered request.
ResetPasswordShows(result) ==
    IF result = "ok"
    THEN "If the email exists in our system, a reset link has been sent."
    ELSE "Error sending reset link. Please try again."

\* ------------------------------------------ calls on the AuthSession Manager
CallerEmails == {"a@x.com", "A@x.com", "b@x.com"}
\* The addresses registration is tried with.
RegisterEmails == {"a@x.com", "A@x.com"}
RegisterPasswords == {"secret1", "12345"}
RegisterRegions == {"India", "india"}
LoginPasswords == {"secret1", "secret2"}
NewPasswords == {"secret2"}
ProfileRegions == {"Canada", "canada"}

\* Tokens a caller presents: every token the server can have generated, of
\* either kind, and none.
CallerOpaques ==
    {[kind |-> k, email |-> "a@x.com", at |-> t] :
        k \in {"verify", "reset"}, t \in 0..MaxTime} \cup {NoOpaque}

AuthCall(op, email, token, existed, valid, result, generated) ==
    [op |-> op, email |-> email, token |-> token, existed |-> existed,
     valid |-> valid, result |-> result, generated |-> generated]

\* POST /auth/register, up to the insert: an answer at once for a known
\* e-mail or an invalid input.
RegisterCall(email, password, r) ==
    /\ LET check == register_check(users, email, password, r)
           valid == r \in SupportedRegions /\ Len(password) >= 6
       IN  IF check = "ok"
           THEN /\ BagCardinality(regCalls) < MaxInflight
                /\ regCalls' = OneMore(regCalls, [email |-> email,
                                                  password |-> password,
                                                  region |-> r])
                /\ UNCHANGED <<users, srv>>
           ELSE /\ srv' = AuthCall("register", email, NoOpaque,
                                   EmailExists(users, email), valid, check, FALSE)
                /\ UNCHANGED <<users, regCalls>>
    /\ UNCHANGED <<clientVars, adminVars, priced, tokenVars, now>>

\* POST /auth/register: the insert and the answer.
RegisterInsert(call) ==
    /\ BagIn(call, regCalls)
    /\ Len(users) < MaxUsers
    /\ LET done == insert_user(users, NewUser(call.email, call.password,
                                              call.region, now))
       IN  /\ users' = done.users
           /\ srv' = AuthCall("register", call.email, NoOpaque,
                              EmailExists(users, call.email), TRUE, done.result,
                              done.result = "created")
    /\ regCalls' = OneLess(regCalls, call)
    /\ UNCHANGED <<clientVars, adminVars, priced, tokenVars, now>>

\* POST /auth/login
Login(email, password) ==
    /\ srv' = AuthCall("login", email, NoOpaque, EmailExists(users, email), TRUE,
                       login(users, email, password), FALSE)
    /\ UNCHANGED <<clientVars, adminVars, priced, tokenVars, users, now, regCalls>>

\* POST /auth/verify-email
VerifyEmail(token) ==
    /\ LET done == verify_email(users, token, now)
       IN  /\ users' = done.users
           /\ srv' = AuthCall("verify_email", token.email, token,
                              EmailExists(users, token.email), TRUE, done.result, FALSE)
    /\ UNCHANGED <<clientVars, adminVars, priced, tokenVars, now, regCalls>>

\* POST /auth/reset-password
RequestPasswordReset(email) ==
    /\ LET done == request_password_reset(users, email, now)
       IN  /\ users' = done.users
           /\ srv' = AuthCall("request_password_reset", email, NoOpaque,
                              EmailExists(users, email), TRUE, done.result,
                              done.generated)
    /\ UNCHANGED <<clientVars, adminVars, priced, tokenVars, now, regCalls>>

\* POST /auth/reset-password-confirm
ConfirmPasswordReset(token, new_password) ==
    /\ LET done == confirm_password_reset(users, token, new_password, now)
       IN  /\ users' = done.users
           /\ srv' = AuthCall("confirm_password_reset", token.email, token,
                              EmailExists(users, token.email), TRUE, done.result, FALSE)
    /\ UNCHANGED <<clientVars, adminVars, priced, tokenVars, now, regCalls>>

\* PUT /user/profile by the user i
UpdateProfile(i, r) ==
    /\ i \in 1..Len(users)
    /\ LET done == update_profile(users, i, r)
       IN  /\ users' = done.users
           /\ srv' = AuthCall("update_profile", users[i].email, NoOpaque, TRUE,
                              r \in SupportedRegions, done.result, FALSE)
    /\ UNCHANGED <<clientVars, adminVars, priced, tokenVars, now, regCalls>>

\* Time passes.
Tick ==
    /\ now < MaxTime
    /\ now' = now + 1
    /\ UNCHANGED <<clientVars, adminVars, priced, tokenVars, users, regCalls, srv>>

NextAccounts ==
    \/ \E email \in RegisterEmails, password \in RegisterPasswords,
          r \in RegisterRegions : RegisterCall(email, password, r)
    \/ \E call \in BagToSet(regCalls) : RegisterInsert(call)
    \/ \E email \in CallerEmails, password \in LoginPasswords : Login(email, password)
    \/ \E token \in CallerOpaques : VerifyEmail(token)
    \/ \E email \in CallerEmails : RequestPasswordReset(email)
    \/ \E token \in CallerOpaques, password \in NewPasswords :
            ConfirmPasswordReset(token, password)
    \/ \E i \in 1..MaxUsers, r \in ProfileRegions : UpdateProfile(i, r)
    \/ Tick

\* The AuthSession Manager answering arbitrary calls, registrations
\* overlapping.
SpecAccounts == Init /\ [][NextAccounts]_vars


\* ---------------------------------------------- AuthSession Manager: tokens
\* The token passes signature and expiry verification at instant t.
Verified(token, t) ==
    /\ token # NoToken
    /\ token.signed
    /\ t <= token.exp

\* authorize without the test of the token type.
authorize_anyType(token, t) ==
    IF Verified(token, t)
    THEN [user_id |-> token.user_id]
    ELSE [error |-> "Unauthorized"]

\* authorize(bearer_token): the user of a valid access token.
authorize(token, t) ==
    IF Verified(token, t) /\ token.type = "access"
    THEN [user_id |-> token.user_id]
    ELSE [error |-> "Unauthorized"]

\* refresh(refresh_token): a new pair bound to the same user.
refresh(token, t) ==
    IF Verified(token, t) /\ token.type = "refresh"
    THEN [access_token |-> AccessToken(token.user_id, t),
          refresh_token |-> RefreshToken(token.user_id, t, TRUE)]
    ELSE [error |-> "InvalidToken"]

\* A call gave a token pair.
IsPair(result) == "access_token" \in DOMAIN result

\* Tokens nobody signed: a caller can make up any content.
Forged ==
    {[AccessToken(a, 0) EXCEPT !.signed = FALSE, !.exp = MaxTime + 1] : a \in Accounts}
        \cup {[RefreshToken(a, 0, FALSE) EXCEPT !.signed = FALSE,
                                               !.exp = MaxTime + 1] : a \in Accounts}

\* Largest number of token pairs issued in a run.
MaxPairs == 2

\* The run has room for the tokens of one more pair.
RoomFor(pair) ==
    Cardinality(issued \cup {pair.access_token, pair.refresh_token}) <= 2 * MaxPairs

\* Tokens a caller can present: those issued so far, forged ones and none.
Presentable == issued \cup Forged \cup {NoToken}

\* POST /auth/login with the right password.
IssueAtLogin(a) ==
    /\ RoomFor(TokenPair(a))
    /\ issued' = issued \cup {TokenPair(a).access_token, TokenPair(a).refresh_token}
    /\ tokCall' = [op |-> "login", token |-> NoToken, at |-> now,
                   result |-> TokenPair(a),
                   reissued |-> TokenPair(a).access_token \in issued]
    /\ UNCHANGED <<clientVars, adminVars, priced, accountVars>>

\* POST /auth/refresh
Refresh(token) ==
    /\ token \in Presentable
    /\ LET result == refresh(token, now)
       IN  /\ IsPair(result) => RoomFor(result)
           /\ issued' = IF IsPair(result)
                        THEN issued \cup {result.access_token, result.refresh_token}
                        ELSE issued
           /\ tokCall' = [op |-> "refresh", token |-> token, at |-> now,
                          result |-> result,
                          reissued |-> IsPair(result)
                                          /\ result.access_token \in issued]
    /\ UNCHANGED <<clientVars, adminVars, priced, accountVars>>

\* A protected operation called with a bearer token.
Authorize(token) ==
    /\ token \in Presentable
    /\ tokCall' = [op |-> "authorize", token |-> token, at |-> now,
                   result |-> authorize(token, now), reissued |-> FALSE]
    /\ UNCHANGED <<clientVars, adminVars, priced, accountVars, issued>>

\* Time passes.
TokenTick ==
    /\ now < MaxTime
    /\ now' = now + 1
    /\ UNCHANGED <<clientVars, adminVars, priced, users, regCalls, srv, tokenVars>>

NextTokens ==
    \/ \E a \in Accounts : IssueAtLogin(a)
    \/ \E token \in Presentable : Refresh(token)
    \/ \E token \in Presentable : Authorize(token)
    \/ TokenTick

\* Token issuance, rotation and validation over time.
SpecTokens == Init /\ [][NextTokens]_vars

\* ==================================================================== claims
\* Number of lines of c with the given key.
LinesWith(c, id, s) == Cardinality({i \in 1..Len(c) : SameKey(c[i], id, s)})

\* The lines of c whose key is not (id, s), in order.
Without(c, id, s) == SelectSeq(c, LAMBDA item : ~SameKey(item, id, s))

\* C1: addToCart on a cart that holds a line with the same (product_id,
\* subscription_type) leaves exactly one line with that key, its quantity the
\* sum of the old quantity and the added one; with a subscription type the
\* product has no line for, it appends one new line with the added quantity
\* and every line that was there stays as it was.
C1_AddMerges ==
    last.op = "addToCart" =>
        LET b == last.before
            id == last.product_id
            s == last.subscription_type
        IN  IF HasLine(b, id, s)
            THEN /\ LinesWith(cart, id, s) = 1
                 /\ QtyOf(cart, id, s) = QtyOf(b, id, s) + last.quantity
                 /\ Len(cart) = Len(b)
            ELSE /\ Len(cart) = Len(b) + 1
                 /\ SameKey(cart[Len(cart)], id, s)
                 /\ cart[Len(cart)].quantity = last.quantity
                 /\ \A i \in 1..Len(b) : cart[i] = b[i]

\* A merge happened on a cart that also holds another subscription type of
\* the same product.
C1_Witness ==
    /\ last.op = "addToCart"
    /\ HasLine(last.before, last.product_id, last.subscription_type)
    /\ \E i \in 1..Len(cart) :
            /\ cart[i].product_id = last.product_id
            /\ cart[i].subscription_type # last.subscription_type

\* C2: no two cart lines share the same (product_id, subscription_type).
C2_UniqueKeys ==
    \A i, j \in 1..Len(cart) :
        SameKey(cart[i], cart[j].product_id, cart[j].subscription_type) => i = j

\* Two lines of one product (different subscription types), reached by an
\* addToCart on a cart that already held that product.
C2_Witness ==
    /\ last.op = "addToCart"
    /\ Len(cart) = 2
    /\ cart[1].product_id = cart[2].product_id
    /\ Len(last.before) = 2

\* C3: updateCartQuantity with quantity <= 0 gives the cart removeFromCart
\* gives (the line with that key is gone, all others stay in order); with
\* quantity >= 1 the line with that key gets the quantity and no line is
\* removed.
C3_UpdateOrRemove ==
    last.op = "updateCartQuantity" =>
        LET b == last.before
            id == last.product_id
            s == last.subscription_type
        IN  IF last.quantity <= 0
            THEN /\ cart = removeFromCart(b, id, s)
                 /\ cart = Without(b, id, s)
            ELSE /\ Len(cart) = Len(b)
                 /\ \A i \in 1..Len(b) :
                        cart[i] = IF SameKey(b[i], id, s)
                                  THEN [b[i] EXCEPT !.quantity = last.quantity]
                                  ELSE b[i]

\* updateCartQuantity(p, s, 0) has removed a line from a two-line cart.
C3_Witness ==
    /\ last.op = "updateCartQuantity"
    /\ last.quantity = 0
    /\ HasLine(last.before, last.product_id, last.subscription_type)
    /\ Len(last.before) = 2
    /\ Len(cart) = 1

\* C4: through the page handlers every cart line has an integer quantity
\* >= 1, and so has every line of every POST /cart request in flight and of
\* the projection a checkout request would send.
C4_PositiveQuantities ==
    /\ \A i \in 1..Len(cart) : cart[i].quantity \in Nat /\ cart[i].quantity >= 1
    /\ \A i \in 1..Len(cart) : cartItems(cart)[i].quantity >= 1
    /\ \A req \in BagToSet(cartReqs) :
            \A i \in 1..Len(req.items) : req.items[i].quantity >= 1

\* The - button of the Cart page was pressed on a line displayed with
\* quantity 1, and the line is gone.
C4_Witness ==
    /\ page = "cart"
    /\ last.op = "updateCartQuantity"
    /\ last.quantity = 0
    /\ HasLine(last.before, last.product_id, last.subscription_type)
    /\ cart = <<>>

\* The priced cart on screen is the server's answer for the current cart and
\* region.
ShownIsCurrent == cartCalculation = price_cart(cartItems(cart), region)

\* C7: once every POST /cart request of the visit has completed, all of them
\* successfully, the priced cart on the Cart page is the answer to the request
\* for the latest cart and region.
C7_LatestResponseShown ==
    (/\ page = "cart"
     /\ Len(cart) > 0
     /\ cartReqs = EmptyBag
     /\ cartFailed = "no") => ShownIsCurrent

\* C8: when the request that completed last failed, the Cart page shows no
\* priced cart or the one computed for the current cart and region.
C8_NoStaleAfterFailure ==
    (cartFailed = "last" /\ CartShown) => ShownIsCurrent

\* C5: the admin panel is rendered exactly when loading is false and the user
\* is a non-null administrator; a non-null user who is no administrator is
\* sent to '/', and once loading is false a null user is sent to '/login'.
C5_AdminOnly ==
    /\ AdminRoute(user, loading) = "children"
        <=> (~loading /\ user # NoUser /\ user.is_admin)
    /\ (user # NoUser /\ ~user.is_admin) => AdminRoute(user, loading) = "/"
    /\ (~loading /\ user = NoUser) => AdminRoute(user, loading) = "/login"

\* A user who is no administrator is logged in and is sent to '/'.
C5_Witness ==
    /\ user # NoUser
    /\ ~user.is_admin
    /\ AdminRoute(user, loading) = "/"

\* The profile request issued when the page was loaded is still in flight.
MountFetchInFlight ==
    \E req \in BagToSet(profileReqs) : req.origin = "mount"

\* C6: ProtectedRoute renders its children only for a non-null user, sends to
\* /login only when loading is false and user is null, and never while the
\* profile request issued at startup is in flight.
C6_ProtectedRoute ==
    /\ ProtectedRoute(user, loading) = "children" => user # NoUser
    /\ ProtectedRoute(user, loading) = "/login" => (~loading /\ user = NoUser)
    /\ MountFetchInFlight => ProtectedRoute(user, loading) # "/login"

\* C9: the region of the shopping context, and the stored selectedRegion it
\* starts from, is exactly 'India' or 'Canada'.
C9_RegionValid ==
    /\ region = "India" \/ region = "Canada"
    /\ selectedRegion = "India" \/ selectedRegion = "Canada"

\* The page was loaded with a stored token (loading is still true) and the
\* region came back from localStorage as 'Canada'.
C9_Witness ==
    /\ loading
    /\ MountFetchInFlight
    /\ region = "Canada"

\* C10: after a successful login or profile update, and until the selector is
\* used, the region of the shopping context is the user's profile region.
C10_ProfileRegionIsDefault ==
    (user # NoUser /\ regionDefault = "profile") => region = user.region

\* C11: no update of an order moves its order_status to an earlier position on
\* the path pending, confirmed, shipped, delivered (a move to cancelled is
\* allowed from anywhere).
C11_StatusNeverMovesBack ==
    [][\A o \in OrderIds :
          \/ orderStore'[o] = "cancelled"
          \/ StatusRank(orderStore'[o]) >= StatusRank(orderStore[o])]_vars

\* C12 (client part): when the profile request sent at startup with the stored
\* access token fails, the client is left holding neither token and user is
\* null.
C12_StartupRejection ==
    [][\A req \in BagToSet(profileReqs) :
          (req.origin = "mount" /\ ProfileFailure(req))
              => /\ access_token' = NoToken
                 /\ refresh_token' = NoToken
                 /\ user' = NoUser]_vars

\* The scenario of C19: two units of product 1 (base_price 100 INR), one-time.
ScenarioCart == <<[product_id |-> 1, quantity |-> 2, subscription_type |-> "one-time"]>>

C20_PriceProduct ==
    priced.op = "price_product"
    => LET base_price == priced.product.base_price
       IN  CASE priced.region = "India" ->
                  priced.result = [price |-> base_price, currency |-> "INR"]
             [] priced.region = "Canada" ->
                  /\ priced.result.price * 100 = base_price * 6
                  /\ priced.result.currency = "CAD"
             [] OTHER ->
                  priced.result = [error |-> "UnsupportedRegion"]

C20_Witness ==
    /\ priced.op = "price_product"
    /\ priced.region = "india"
    /\ priced.result = [error |-> "UnsupportedRegion"]

\* No two stored users have the same e-mail address.
UniqueEmails ==
    \A i, j \in 1..Len(users) : users[i].email = users[j].email => i = j

\* C13: of the register calls made with one e-mail address and valid input,
\* overlapping or not, one succeeds and every other one fails with the
\* duplicate-email error; no two stored users ever share an e-mail address.
C13_RegistrationUnique ==
    /\ UniqueEmails
    /\ (srv.op = "register" /\ srv.valid)
         => /\ srv.result \in {"created", "DuplicateEmail"}
            /\ srv.result = "DuplicateEmail" <=> srv.existed
            /\ Cardinality({i \in 1..Len(users) : users[i].email = Lower(srv.email)}) = 1

\* A registration of the address is stored while another one, which passed
\* its lookup before, is still to be inserted.
C13_Witness ==
    /\ srv.op = "register"
    /\ srv.result = "created"
    /\ Len(users) = 1
    /\ \E call \in BagToSet(regCalls) : Lower(call.email) = users[1].email

\* C14 as stated: what the Register page shows for a registration with an
\* already registered e-mail address is what it shows for one that is not
\* registered.
C14_RegistrationHidesExistence ==
    (srv.op = "register" /\ srv.valid /\ srv.existed)
        => RegisterShows(srv.result) = RegisterShows("created")

\* C14, amended: registration reveals whether an e-mail address exists: with
\* valid input the Register page shows the duplicate-email error exactly when
\* the address is already registered, and the success text otherwise.
C14_RegistrationRevealsExistence ==
    (srv.op = "register" /\ srv.valid)
        => /\ srv.existed => RegisterShows(srv.result) = "DuplicateEmail"
           /\ ~srv.existed => RegisterShows(srv.result) = "Registration successful!"

C14_Witness ==
    /\ srv.op = "register"
    /\ srv.valid
    /\ srv.existed
    /\ RegisterShows(srv.result) = "DuplicateEmail"

\* C15: request_password_reset gives the same success answer whether or not
\* the e-mail address exists, generates a reset token exactly when it exists,
\* and the ResetPassword page shows the same text in both cases.
C15_ResetHidesExistence ==
    srv.op = "request_password_reset"
        => /\ srv.result = "ok"
           /\ srv.generated <=> srv.existed
           /\ ResetPasswordShows(srv.result)
                = "If the email exists in our system, a reset link has been sent."
           /\ srv.existed
                => users[UserOf(users, srv.email)].reset_token.kind = "reset"
           /\ ~srv.existed
                => \A i \in 1..Len(users) : users[i].email # Lower(srv.email)

\* A reset was requested for an address that is not registered while another
\* address is.
C15_Witness ==
    /\ srv.op = "request_password_reset"
    /\ ~srv.existed
    /\ srv.email = "b@x.com"
    /\ Len(users) = 1
    /\ users[1].reset_token # NoOpaque

\* C18: is_email_verified of a user goes from false to true only in a
\* verify_email call with that user's current verification token before its
\* expiry, and never from true to false; users are never removed and a new
\* user starts unverified.
C18_VerifiedOnlyByToken ==
    [][/\ Len(users') >= Len(users)
       /\ \A i \in 1..Len(users') :
            IF i > Len(users)
            THEN ~users'[i].is_email_verified
            ELSE /\ users[i].is_email_verified => users'[i].is_email_verified
                 /\ (~users[i].is_email_verified /\ users'[i].is_email_verified)
                      => /\ srv'.op = "verify_email"
                         /\ srv'.result = "ok"
                         /\ srv'.token = users[i].verification_token
                         /\ now <= users[i].verification_expiry]_vars

\* A verified user for whom a password reset was confirmed afterwards.
C18_Witness ==
    /\ srv.op = "confirm_password_reset"
    /\ srv.result = "ok"
    /\ Len(users) = 1
    /\ users[1].is_email_verified
    /\ users[1].password_hash = Hash("secret2")

\* The token half of C12: an access token issued by login is accepted by
\* authorize at every instant before its expiry and rejected at every instant
\* after it.
TokenRoundTrip ==
    (tokCall.op = "authorize" /\ tokCall.token \in issued
        /\ tokCall.token.type = "access")
    => /\ tokCall.at < tokCall.token.exp
            => tokCall.result = [user_id |-> tokCall.token.user_id]
       /\ tokCall.at > tokCall.token.exp
            => tokCall.result = [error |-> "Unauthorized"]

\* C16: authorize never accepts a refresh token and refresh never accepts an
\* access token, whatever their signature and expiry.
C16_TypesNeverMix ==
    /\ (tokCall.op = "authorize" /\ tokCall.token.type = "refresh")
         => tokCall.result = [error |-> "Unauthorized"]
    /\ (tokCall.op = "refresh" /\ tokCall.token.type = "access")
         => tokCall.result = [error |-> "InvalidToken"]

\* An issued refresh token, not yet expired, was presented to authorize.
C16_Witness ==
    /\ tokCall.op = "authorize"
    /\ tokCall.token \in issued
    /\ tokCall.token.type = "refresh"
    /\ tokCall.at <= tokCall.token.exp

C21_NotFoundNoPartialResult ==
    (priced.op = "price_cart"
        /\ \E i \in 1..Len(priced.items) : priced.items[i].product_id \notin ProductIds)
    => /\ DOMAIN priced.result = {"error"}
       /\ priced.region \in SupportedRegions
            => priced.result.error = "ProductNotFound"

\* A valid line first and the line of an unknown product second.
C21_Witness ==
    /\ priced.op = "price_cart"
    /\ priced.region = "India"
    /\ Len(priced.items) = 2
    /\ priced.items[1].product_id \in ProductIds
    /\ priced.items[2].product_id \notin ProductIds
    /\ priced.result = [error |-> "ProductNotFound"]

\* C22: once logout() has run, and until login() is called again, user is null
\* and neither token is stored, also when a request issued before the logout
\* completes afterwards.
C22_LoggedOutStays ==
    loggedOut => /\ user = NoUser
                 /\ access_token = NoToken
                 /\ refresh_token = NoToken

\* C23: when login() resolves { success: true } (the profile request it
\* awaited has settled) user is the profile of the account that logged in and
\* both tokens are stored; when it resolves { success: false } user and the
\* stored tokens are what they were.
C23_LoginOutcome ==
    [][/\ \A req \in BagToSet(profileReqs) :
             (req.origin = "login"
                 /\ (ProfileFailure(req)
                        \/ \E r \in RegionOptions : ProfileResponse(req, r)))
             => /\ user' # NoUser
                /\ user'.id = req.token.user_id
                /\ access_token' # NoToken
                /\ refresh_token' # NoToken
       /\ \A req \in BagToSet(loginReqs) :
             LoginFailure(req) => UNCHANGED <<user, access_token, refresh_token>>]_vars

\* C24: whenever loading is true it becomes false, given that the profile
\* request completes, and within one page load loading never goes from false
\* back to true.
C24_LoadingSettles ==
    /\ loading ~> ~loading
    /\ [][(~loading /\ ~Reload) => ~loading']_vars

\* The page was loaded with a stored token and the profile request of the
\* mount effect has been answered: loading is false and user is set.
C24_Witness ==
    /\ ~loading
    /\ ~MountFetchInFlight
    /\ user # NoUser
    /\ access_token # NoToken
    /\ user.id = access_token.user_id
    /\ regionDefault = "none"

\* C25: the update sent by Save contains only field changes that were made
\* while the order being saved was the one being edited.
C25_SaveSendsOwnChanges ==
    [][SaveOrder =>
          \A field \in DOMAIN orderUpdates :
              orderUpdates[field] # "" => enteredFor[field] = editingOrder]_vars

\* C30: removeFromCart(p, s) and updateCartQuantity(p, s, q) change only the
\* line with key (p, s): the other lines are the same, in the same order, and
\* a cart without that key is left as it is; an addToCart that merges leaves
\* every line at its position, and one that does not merge appends its line
\* after the others.
C30_OnlyTheKeyedLine ==
    LET b == last.before
        id == last.product_id
        s == last.subscription_type
    IN  /\ last.op \in {"removeFromCart", "updateCartQuantity"} =>
            /\ Without(cart, id, s) = Without(b, id, s)
            /\ ~HasLine(b, id, s) => cart = b
            /\ Len(cart) = Len(b) =>
                  \A i \in 1..Len(b) : SameKey(cart[i], id, s) <=> SameKey(b[i], id, s)
        /\ last.op = "addToCart" =>
            /\ \A i \in 1..Len(b) :
                  /\ cart[i].product_id = b[i].product_id
                  /\ cart[i].subscription_type = b[i].subscription_type
                  /\ ~SameKey(b[i], id, s) => cart[i] = b[i]
            /\ IF HasLine(b, id, s)
               THEN Len(cart) = Len(b)
               ELSE Len(cart) = Len(b) + 1 /\ SameKey(cart[Len(cart)], id, s)

\* removeFromCart took one of the two lines of a product and the line of the
\* other subscription type is still there.
C30_Witness ==
    /\ last.op = "removeFromCart"
    /\ Len(last.before) = 2
    /\ Len(cart) = 1
    /\ cart[1].product_id = last.product_id
    /\ cart[1].subscription_type # last.subscription_type

\* C29: through the pages, every cart line with subscription_type weekly or
\* monthly is a line of a subscription-eligible product.
C29_SubscriptionsOnlyIfEligible ==
    \A i \in 1..Len(cart) :
        cart[i].subscription_type \in {"weekly", "monthly"}
            => ProductById(cart[i].product_id).subscription_eligible

\* C27: every checkout request carries a delivery_address.country equal to
\* its region and, as cart_items, the (product_id, quantity,
\* subscription_type) of the lines of the cart, in cart order.
C27_CheckoutRequestConsistent ==
    \A req \in BagToSet(checkoutReqs) :
        /\ req.delivery_address.country = req.region
        /\ Len(req.cart_items) = Len(cart)
        /\ \A i \in 1..Len(cart) :
              /\ req.cart_items[i].product_id = cart[i].product_id
              /\ req.cart_items[i].quantity = cart[i].quantity
              /\ req.cart_items[i].subscription_type = cart[i].subscription_type

\* C28: a Checkout page has at most one POST /payments/checkout outstanding,
\* its loading flag (which disables the submit button) is true exactly while
\* that request is in flight, and no request carries an empty cart.
C28_OneCheckoutAtATime ==
    /\ BagCardinality(checkoutReqs) <= 1
    /\ checkoutLoading <=> BagCardinality(checkoutReqs) > 0
    /\ \A req \in BagToSet(checkoutReqs) : Len(req.cart_items) > 0

\* A checkout request for a two-line cart is in flight.
C28_Witness ==
    /\ page = "checkout"
    /\ checkoutLoading
    /\ BagCardinality(checkoutReqs) = 1
    /\ Len(cart) = 2

\* C26: a subscription pause, cancel or resume request that fails is not
\* reported as successful, and the orders and subscriptions on display are
\* orders and subscriptions the server returned for the user.
C26_FailuresAreNotSuccesses ==
    [][/\ \A req \in BagToSet(pageReqs) :
             SubscriptionActionFailure(req) => lastAlert'.text # "successful"
       /\ Elements(orders') \subseteq returned'
       /\ Elements(subscriptions') \subseteq returned']_vars

====
